---- MODULE Spec2Model ----
(***************************************************************************)
(* Model of the cassava disease detection backend: the predictor singleton *)
(* (backend/utils.py), the fusion network's inference-relevant state       *)
(* (backend/models.py, backend/transforms.py) and the HTTP handlers        *)
(* (backend/main.py).                                                      *)
(*                                                                         *)
(* Tensors are abstracted to small integers: an image is a content id, a   *)
(* parameter set is an id (0 = the values stored in the weight file,       *)
(* 1..NumSeeds = one random initialisation), probabilities are fixed-point *)
(* numbers with denominator Scale.                                         *)
(***************************************************************************)
EXTENDS Integers, Sequences, FiniteSets, TLC

VARIABLES
    weightFile,  \* state of the file at MODEL_PATH: "missing", "ok", "mismatch"
    predictor,   \* utils.predictor: None, or the index in heap of the instance
    heap,        \* every ModelPredictor whose __init__ has run, in order
    server,      \* lifecycle of the uvicorn process: "starting", "serving", "exited"
    last,        \* outcome of the most recent call, as its caller sees it
    pc,          \* per thread: position inside get_predictor
    held,        \* per thread: the instance get_predictor returned to it
    net,         \* a MidFusionNet seen through its tensor shapes, as it is built
    run,         \* the most recent transform or forward pass, through its shapes
    validator,   \* the module-level `_validator`: None or the shared validator
    trace        \* the steps the most recent request ran, in order

vars == <<weightFile, predictor, heap, server, last, pc, held, net, run,
          validator, trace>>

(* ------------------------------ bounds -------------------------------- *)
MaxInst == 3        \* ModelPredictor constructions per run
MaxBatches == 2     \* training-mode forward passes per instance
NumSeeds == 2       \* distinct random initialisations of the fresh layers
NumMasks == 2       \* distinct random draws of the frequency mask
MaxPix == 2         \* distinct image contents
NumThreads == 2     \* threads calling get_predictor directly
MaxSide == 512      \* largest image height or width
Scale == 100000     \* fixed-point denominator of a probability

None == 0

Threads == 1..NumThreads

(* ------------------------------ config.py ----------------------------- *)
NUM_CLASSES == 5

MAX_FILE_SIZE == 10 * 1024 * 1024

CLASS_NAMES ==
    << "Cassava Bacterial Blight (CBB)",
       "Cassava Brown Streak Disease (CBSD)",
       "Cassava Green Mottle (CGM)",
       "Cassava Mosaic Disease (CMD)",
       "Healthy" >>

ClassIds == 0..(Len(CLASS_NAMES) - 1)

\* class_names[i] with Python's 0-based index
ClassName(names, i) == names[i + 1]

(* --------------------------- inputs, errors --------------------------- *)
\* An image as Image.open returns it: colour mode, whether its height or width
\* is odd, content, and whether its pixel data ends early (the header parses,
\* loading the pixels raises).
Images == [mode : {"RGB", "L"}, odd : BOOLEAN, pix : 0..MaxPix, truncated : BOOLEAN]

\* Environment faults a call can meet: none, allocation failure inside a
\* transform, allocation failure inside the forward pass.
Faults == {"none", "oom_transform", "oom_forward"}

\* Subsets of the two abstract latent features that dropout zeroes.
DropMasks == SUBSET {1, 2}

NoError == [type |-> "", msg |-> ""]

OddDctError == [type |-> "cv2.error", msg |-> "Odd-size DCT's are not implemented"]

AllocError == [type |-> "RuntimeError", msg |-> "not enough memory"]

StateDictError == [type |-> "RuntimeError", msg |-> "Error(s) in loading state_dict"]

TruncatedError == [type |-> "OSError", msg |-> "image file is truncated"]

(* ----------------------------- transforms.py -------------------------- *)
\* a preprocess_image that hands the image on in the mode it came in
ToRGBSkipped(img) == img

\* image.convert('RGB') at the orchestrator boundary
ToRGB(img) == IF img.mode # "RGB" THEN [img EXCEPT !.mode = "RGB"] ELSE img

\* cv2.dct accepts even-sized arrays only
DCTTransform(img) ==
    IF img.odd THEN [ok |-> FALSE, val |-> 0, err |-> OddDctError]
    ELSE [ok |-> TRUE, val |-> img.pix, err |-> NoError]

STFTTransform(img) == [ok |-> TRUE, val |-> img.pix + 1, err |-> NoError]

WaveletTransform(img) == [ok |-> TRUE, val |-> img.pix, err |-> NoError]

\* img_tensor * self.freq_filter, the mask being the instance's parameter
LearnableFrequencyTransform(mask, img) ==
    [ok |-> TRUE, val |-> img.pix * mask, err |-> NoError]

\* get_transforms(): the LearnableFrequencyTransform draws its mask here
GetTransforms(mask) == [freq_filter |-> mask]

(* ------------------------------ models.py ----------------------------- *)
LogitMod == 4

RECURSIVE Pow2(_)
Pow2(n) == IF n = 0 THEN 1 ELSE 2 * Pow2(n - 1)

RECURSIVE SumSeq(_)
SumSeq(s) == IF s = <<>> THEN 0 ELSE Head(s) + SumSeq(Tail(s))

\* one backbone family applied to one transformed tensor
Branch(family, x) == IF family = "mnv2" THEN x + 1 ELSE 2 * x

\* forward(): the eight branch outputs in concatenation order
BranchFeats(inputs) ==
    << Branch("mnv2", inputs.dct), Branch("mnv2", inputs.stft),
       Branch("mnv2", inputs.wavelet), Branch("mnv2", inputs.learn),
       Branch("cnx", inputs.dct), Branch("cnx", inputs.stft),
       Branch("cnx", inputs.wavelet), Branch("cnx", inputs.learn) >>

\* 1x1 convolution of the concatenation down to the (abstract, 2-wide) latent
FusionConv(params, feats) ==
    << SumSeq([k \in 1..Len(feats) |-> feats[k] * (1 + ((k + params) % 2))]),
       SumSeq([k \in 1..Len(feats) |-> feats[k] * (1 + ((k * params) % 3))]) >>

\* BatchNorm2d: batch statistics in training mode, running statistics in eval
BatchNorm(model, v) ==
    IF model.training THEN v
    ELSE [k \in 1..Len(v) |-> v[k] + model.running_mean]

\* the buffers after one forward pass: updated in training mode only
BatchNormBuffers(model, v) ==
    IF model.training
    THEN [model EXCEPT !.bn_batches = @ + 1,
                        !.running_mean = (@ + v[1]) % 2]
    ELSE model

\* nn.Dropout: zeroes the drawn positions in training mode, identity in eval
Dropout(model, drop, v) ==
    IF model.training THEN [k \in 1..Len(v) |-> IF k \in drop THEN 0 ELSE v[k]]
    ELSE v

\* nn.Linear(512, num_classes): one score per class
Linear(params, v) ==
    [c \in 1..NUM_CLASSES |->
        ((c * (params + 1)) * v[1] + (c * c) * v[2] + params * c) % LogitMod]

\* MidFusionNet.forward
Forward(model, inputs, drop) ==
    LET feats == BranchFeats(inputs)
        fused == BatchNorm(model, FusionConv(model.params, feats))
    IN  Linear(model.params, Dropout(model, drop, fused))

\* the fused pre-normalisation activations the BatchNorm layer sees
FusedPreNorm(model, inputs) == FusionConv(model.params, BranchFeats(inputs))

\* MidFusionNet.__init__: fresh layers randomly initialised, training mode
MidFusionNet(seed) ==
    [params |-> seed, training |-> TRUE, bn_batches |-> 0, running_mean |-> 0]

\* the frequency mask a weight store would hold if it held one; a random draw
\* (1..NumMasks) never equals it
StoredMask == 0

\* load_state_dict: every parameter and buffer replaced by the stored value
LoadStateDict(model) ==
    [model EXCEPT !.params = 0, !.bn_batches = 0, !.running_mean = 1]

\* nn.Module.eval()
Eval(model) == [model EXCEPT !.training = FALSE]

(* ------------------- transforms.py, through tensor shapes -------------- *)
TENSOR_SIDE == 224

STFT_NPERSEG == 64

\* heights and widths of the images the transforms are applied to
Sides == {1, 2, STFT_NPERSEG, TENSOR_SIDE, TENSOR_SIDE + 1, MaxSide}

\* an RGB image with its resolution
SizedImages == [h : Sides, w : Sides, pix : 0..MaxPix]

\* cv2.dct raises for a dimension that is odd and larger than 1
DctRejects(h, w) == (h > 1 /\ h % 2 = 1) \/ (w > 1 /\ w % 2 = 1)

\* the image as the value-level transforms see it
ImageOf(simg) ==
    [mode |-> "RGB", odd |-> DctRejects(simg.h, simg.w), pix |-> simg.pix,
     truncated |-> FALSE]

\* cv2.cvtColor(np.array(img), cv2.COLOR_RGB2GRAY): height x width
GrayShape(simg) == <<simg.h, simg.w>>

\* cv2.resize(x, (224, 224))
Resize(shape) == <<TENSOR_SIDE, TENSOR_SIDE>>

\* shape of np.stack([x, x, x], axis=-1) and of np.repeat(x[..., None], 3, -1)
StackShape(shape) == <<shape[1], shape[2], 3>>

\* stacking three different arrays instead of one array three times
Stack3Distinct(v) == <<v, v + 1, v + 2>>

\* the channels of np.stack([x, x, x], axis=-1)
Stack3(v) == <<v, v, v>>

\* the channels of np.repeat(x[..., np.newaxis], 3, axis=-1)
Repeat3(v) == <<v, v, v>>

\* x.transpose(2, 0, 1)
ToCHW(shape) == <<shape[3], shape[1], shape[2]>>

FailedTensor(err) == [ok |-> FALSE, shape |-> <<>>, chan |-> <<>>, err |-> err]

\* DCTTransform.__call__ with the shape of what it returns
DCTTensor(simg) ==
    LET t == DCTTransform(ImageOf(simg))
    IN  IF ~t.ok THEN FailedTensor(t.err)
        ELSE [ok |-> TRUE, shape |-> ToCHW(StackShape(Resize(GrayShape(simg)))),
              chan |-> Stack3(t.val), err |-> NoError]

\* shape of the Zxx scipy.signal.stft returns for a height x width array:
\* the window shrinks to the width when the width is below nperseg
StftShape(shape) ==
    LET nperseg == IF shape[2] < STFT_NPERSEG THEN shape[2] ELSE STFT_NPERSEG
        step == nperseg - (nperseg \div 2)
        padded == shape[2] + 2 * (nperseg \div 2)
    IN  <<shape[1], (nperseg \div 2) + 1, ((padded - nperseg) \div step) + 1>>

\* `if magnitude.ndim > 2: magnitude = magnitude[:, :, 0]`
FirstSlice(shape) == IF Len(shape) > 2 THEN <<shape[1], shape[2]>> ELSE shape

\* STFTTransform.__call__ with the shape of what it returns
STFTTensor(simg) ==
    LET t == STFTTransform(ImageOf(simg))
    IN  [ok |-> TRUE,
         shape |-> ToCHW(StackShape(Resize(FirstSlice(StftShape(GrayShape(simg)))))),
         chan |-> Repeat3(t.val), err |-> NoError]

\* shape of the LL subband pywt.dwt2(img, 'haar') returns
HaarShape(shape) == <<(shape[1] + 1) \div 2, (shape[2] + 1) \div 2>>

\* WaveletTransform.__call__ with the shape of what it returns
WaveletTensor(simg) ==
    LET t == WaveletTransform(ImageOf(simg))
    IN  [ok |-> TRUE, shape |-> ToCHW(StackShape(Resize(HaarShape(GrayShape(simg))))),
         chan |-> Stack3(t.val), err |-> NoError]

\* LearnableFrequencyTransform.forward with the shape of what it returns
LearnTensor(mask, simg) ==
    LET t == LearnableFrequencyTransform(mask, ImageOf(simg))
    IN  [ok |-> TRUE, shape |-> ToCHW(StackShape(Resize(GrayShape(simg)))),
         chan |-> Stack3(t.val), err |-> NoError]

TransformNames == <<"dct", "stft", "wavelet", "learn">>

\* the transform get_transforms() stores under a name, applied to an image
ApplyNamed(name, mask, simg) ==
    CASE name = "dct" -> DCTTensor(simg)
      [] name = "stft" -> STFTTensor(simg)
      [] name = "wavelet" -> WaveletTensor(simg)
      [] OTHER -> LearnTensor(mask, simg)

(* --------------------- models.py, through tensor shapes ---------------- *)
LATENT == 512

ShapeError == "RuntimeError: Sizes of tensors must match"

\* what the slices of the torchvision backbones do to a tensor: output channels
\* and the stride-2 steps of mobilenet.features[:14]; output channels, the
\* stride-4 stem and the stride-2 steps of convnext.features[:6]
TorchvisionBackbones ==
    [mnv2 |-> [ch |-> 96, halvings |-> 4],
     cnx |-> [ch |-> 384, stem |-> 4, halvings |-> 2]]

\* a backbone definition whose ConvNeXt slice downsamples once more
ChangedBackbones ==
    [mnv2 |-> [ch |-> 96, halvings |-> 4],
     cnx |-> [ch |-> 768, stem |-> 4, halvings |-> 3]]

Archs == {TorchvisionBackbones, ChangedBackbones}

\* the keys of self.branches, in the order of the dict literal
BranchOrder ==
    <<"mnv2_dct", "mnv2_stft", "mnv2_wave", "mnv2_learn",
      "cnx_dct", "cnx_stft", "cnx_wave", "cnx_learn">>

BranchNames == {BranchOrder[k] : k \in 1..Len(BranchOrder)}

FamilyOf(name) ==
    IF name \in {"mnv2_dct", "mnv2_stft", "mnv2_wave", "mnv2_learn"}
    THEN "mnv2" ELSE "cnx"

\* a forward that runs the ConvNeXt branches before the MobileNetV2 ones
ForwardWiringFamiliesSwapped ==
    <<[branch |-> "cnx_dct", input |-> "dct"],
      [branch |-> "cnx_stft", input |-> "stft"],
      [branch |-> "cnx_wave", input |-> "wavelet"],
      [branch |-> "cnx_learn", input |-> "learn"],
      [branch |-> "mnv2_dct", input |-> "dct"],
      [branch |-> "mnv2_stft", input |-> "stft"],
      [branch |-> "mnv2_wave", input |-> "wavelet"],
      [branch |-> "mnv2_learn", input |-> "learn"]>>

\* forward(): which input each branch is applied to, in order
ForwardWiring ==
    <<[branch |-> "mnv2_dct", input |-> "dct"],
      [branch |-> "mnv2_stft", input |-> "stft"],
      [branch |-> "mnv2_wave", input |-> "wavelet"],
      [branch |-> "mnv2_learn", input |-> "learn"],
      [branch |-> "cnx_dct", input |-> "dct"],
      [branch |-> "cnx_stft", input |-> "stft"],
      [branch |-> "cnx_wave", input |-> "wavelet"],
      [branch |-> "cnx_learn", input |-> "learn"]>>

\* the branches __init__ runs on the dummy input, in order
DryRunOrder == BranchOrder

\* torch.randn(1, 3, 224, 224), without the batch dimension
DummyShape == <<3, TENSOR_SIDE, TENSOR_SIDE>>

\* the module objects: mnv2_block1, mnv2_block2, cnx_block1, cnx_block2, and
\* room for one pair per branch
BlockIds == 1..(2 * Len(BranchOrder))

\* every branch wrapping its own copy of the two blocks
BranchModulesCopied ==
    [n \in BranchNames |->
        LET k == CHOOSE j \in 1..Len(BranchOrder) : BranchOrder[j] = n
        IN  <<2 * k - 1, 2 * k>>]

\* nn.Sequential(mnv2_block1, mnv2_block2) / nn.Sequential(cnx_block1, cnx_block2)
BranchModules ==
    [n \in BranchNames |-> IF FamilyOf(n) = "mnv2" THEN <<1, 2>> ELSE <<3, 4>>]

\* a 3x3 convolution with stride 2 and padding 1 on one spatial dimension
Halve(x) == ((x - 1) \div 2) + 1

RECURSIVE HalveN(_, _)
HalveN(x, n) == IF n = 0 THEN x ELSE HalveN(Halve(x), n - 1)

\* mobilenet.features[:14] on a tensor of the given shape
MobileNetShape(bb, shape) ==
    [ok |-> shape[1] = 3,
     shape |-> <<bb.ch, HalveN(shape[2], bb.halvings), HalveN(shape[3], bb.halvings)>>]

\* convnext.features[:6]: unpadded strided convolutions
ConvNeXtShape(bb, shape) ==
    LET d == bb.stem * Pow2(bb.halvings)
    IN  [ok |-> shape[1] = 3 /\ shape[2] >= d /\ shape[3] >= d,
         shape |-> <<bb.ch, shape[2] \div d, shape[3] \div d>>]

\* self.branches[name](x)
BranchShape(arch, name, shape) ==
    IF FamilyOf(name) = "mnv2" THEN MobileNetShape(arch.mnv2, shape)
    ELSE ConvNeXtShape(arch.cnx, shape)

\* torch.cat(feats, dim=1): every other dimension has to agree
CatShapes(feats) ==
    LET agree == \A k \in 1..Len(feats) :
                     /\ feats[k].ok
                     /\ feats[k].shape[2] = feats[1].shape[2]
                     /\ feats[k].shape[3] = feats[1].shape[3]
    IN  IF agree
        THEN [ok |-> TRUE,
              shape |-> <<SumSeq([k \in 1..Len(feats) |-> feats[k].shape[1]]),
                          feats[1].shape[2], feats[1].shape[3]>>]
        ELSE [ok |-> FALSE, shape |-> <<>>]

\* nn.Conv2d(in, out, kernel_size=1) followed by BatchNorm2d and ReLU
Conv2dShape(inCh, outCh, shape) ==
    [ok |-> shape[1] = inCh, shape |-> <<outCh, shape[2], shape[3]>>]

\* a fusion encoder that keeps the spatial grid
NoPool(shape) == shape

\* nn.AdaptiveAvgPool2d((1, 1))
AdaptiveAvgPool(shape) == <<shape[1], 1, 1>>

\* nn.Flatten()
Flatten(shape) == shape[1] * shape[2] * shape[3]

\* __init__ up to the ModuleDict
NetWithBranches(arch) ==
    [phase |-> "branches", arch |-> arch, branches |-> BranchModules,
     blocks |-> [b \in BlockIds |-> 0], dry |-> <<>>, dry_feats |-> <<>>,
     fused_dim |-> 0, fusion_in |-> 0, fusion_out |-> 0,
     linear_in |-> 0, linear_out |-> 0]

\* fused_dim taken from the channel counts without running the branches together
DryRunUnchecked(n) ==
    LET feats == [k \in 1..Len(DryRunOrder) |->
                     BranchShape(n.arch, DryRunOrder[k], DummyShape)]
    IN  [n EXCEPT !.phase = "measured", !.dry = DryRunOrder, !.dry_feats = feats,
                  !.fused_dim = SumSeq([k \in 1..Len(feats) |-> feats[k].shape[1]])]

\* the dry run of __init__: each branch on the dummy, then torch.cat
DryRun(n) ==
    LET feats == [k \in 1..Len(DryRunOrder) |->
                     BranchShape(n.arch, DryRunOrder[k], DummyShape)]
        cat == CatShapes(feats)
    IN  IF cat.ok
        THEN [n EXCEPT !.phase = "measured", !.dry = DryRunOrder,
                       !.dry_feats = feats, !.fused_dim = cat.shape[1]]
        ELSE [n EXCEPT !.phase = "failed", !.dry = DryRunOrder, !.dry_feats = feats]

\* a fusion projection sized for the MobileNetV2 branches alone
BuildHeadFixedWidth(n) ==
    [n EXCEPT !.phase = "built", !.fusion_in = 4 * n.arch.mnv2.ch,
              !.fusion_out = LATENT, !.linear_in = LATENT,
              !.linear_out = NUM_CLASSES]

\* fusion_encoder and classifier, built from the measured fused_dim
BuildHead(n) ==
    [n EXCEPT !.phase = "built", !.fusion_in = n.fused_dim,
              !.fusion_out = LATENT, !.linear_in = LATENT,
              !.linear_out = NUM_CLASSES]

\* weight files as load_state_dict reads them: one entry per branch key
WeightFiles == [BranchNames -> 1..2]

\* load_state_dict: each key is copied into the module object it names
RECURSIVE LoadKeys(_, _, _, _)
LoadKeys(blocks, branches, file, k) ==
    IF k > Len(BranchOrder) THEN blocks
    ELSE LET name == BranchOrder[k]
             ids == branches[name]
         IN  LoadKeys([b \in DOMAIN blocks |->
                          IF b = ids[1] \/ b = ids[2] THEN file[name] ELSE blocks[b]],
                      branches, file, k + 1)

\* the parameters a branch computes with
BranchParams(n, name) == <<n.blocks[n.branches[name][1]], n.blocks[n.branches[name][2]]>>

\* MidFusionNet.forward on the four transformed tensors
ForwardShapes(n, inputs) ==
    LET feats == [k \in 1..Len(ForwardWiring) |->
                     BranchShape(n.arch, ForwardWiring[k].branch,
                                 inputs[ForwardWiring[k].input].shape)]
        cat == CatShapes(feats)
        conv == IF cat.ok THEN Conv2dShape(n.fusion_in, n.fusion_out, cat.shape)
                ELSE [ok |-> FALSE, shape |-> <<>>]
        fused == IF conv.ok THEN Flatten(AdaptiveAvgPool(conv.shape)) ELSE 0
        ok == cat.ok /\ conv.ok /\ fused = n.linear_in
    IN  [ok |-> ok, stage |-> IF ok THEN "" ELSE "forward",
         err |-> IF ok THEN NoError ELSE ShapeError,
         feats |-> feats, cat_ok |-> cat.ok,
         cat_ch |-> IF cat.ok THEN cat.shape[1] ELSE 0,
         fused_len |-> fused,
         logits_len |-> IF ok THEN n.linear_out ELSE 0]

(* ------------------------------- utils.py ----------------------------- *)
\* load_model with a load that ignores a mismatch instead of raising
LoadModelNonStrict(wf, seed) ==
    LET model == MidFusionNet(seed)
    IN  IF wf # "missing"
        THEN [ok |-> TRUE, model |-> Eval(LoadStateDict(model)),
              err |-> NoError, printed |-> "Model loaded successfully"]
        ELSE [ok |-> TRUE, model |-> model, err |-> NoError,
              printed |-> "Warning: Model file not found"]

\* ModelPredictor.load_model for the weight-file state wf
LoadModel(wf, seed) ==
    LET model == MidFusionNet(seed)
    IN  IF wf # "missing"
        THEN IF wf = "mismatch"
             THEN [ok |-> FALSE, model |-> model, err |-> StateDictError,
                   printed |-> "Error loading model"]
             ELSE [ok |-> TRUE, model |-> Eval(LoadStateDict(model)),
                   err |-> NoError, printed |-> "Model loaded successfully"]
        ELSE [ok |-> TRUE, model |-> model, err |-> NoError,
              printed |-> "Warning: Model file not found"]

\* ModelPredictor.__init__; ok = FALSE when it raised instead of returning
ModelPredictor(wf, seed, mask) ==
    LET lm == LoadModel(wf, seed)
    IN  [ok |-> lm.ok, model_set |-> TRUE, model |-> lm.model,
         transforms |-> GetTransforms(mask), class_names |-> CLASS_NAMES,
         err |-> lm.err, printed |-> lm.printed]

\* ModelPredictor.preprocess_image: RGB once, then dct, stft, wavelet, learn
PreprocessImage(self, image, fault) ==
    LET rgb == ToRGB(image)
        dct == DCTTransform(rgb)
        stft == STFTTransform(rgb)
        wave == WaveletTransform(rgb)
        learn == LearnableFrequencyTransform(self.transforms.freq_filter, rgb)
        none == [dct |-> 0, stft |-> 0, wavelet |-> 0, learn |-> 0]
    IN  IF ~dct.ok THEN [ok |-> FALSE, inputs |-> none, err |-> dct.err]
        ELSE IF fault = "oom_transform"
        THEN [ok |-> FALSE, inputs |-> none, err |-> AllocError]
        ELSE [ok |-> TRUE,
              inputs |-> [dct |-> dct.val, stft |-> stft.val,
                          wavelet |-> wave.val, learn |-> learn.val],
              err |-> NoError]

\* softmax taken over the batch axis: every entry of a 1 x n tensor becomes 1
SoftmaxDim0(logits) == [c \in 1..Len(logits) |-> Scale]

\* torch.softmax(outputs, dim=1), in fixed point, each value rounded to the
\* nearest representable number as floating point does
Softmax(logits) ==
    LET e == [c \in 1..Len(logits) |-> Pow2(logits[c])]
        total == SumSeq(e)
    IN  [c \in 1..Len(logits) |-> (2 * e[c] * Scale + total) \div (2 * total)]

\* argmin in place of argmax
ArgMin(p) ==
    CHOOSE i \in 0..(Len(p) - 1) :
        /\ \A j \in 0..(Len(p) - 1) : p[j + 1] >= p[i + 1]
        /\ \A j \in 0..(i - 1) : p[j + 1] > p[i + 1]

\* torch.argmax(probabilities, dim=1).item(): first index of the maximum, 0-based
ArgMax(p) ==
    CHOOSE i \in 0..(Len(p) - 1) :
        /\ \A j \in 0..(Len(p) - 1) : p[j + 1] <= p[i + 1]
        /\ \A j \in 0..(i - 1) : p[j + 1] < p[i + 1]

\* {self.class_names[i]: float(prob) for i, prob in enumerate(probabilities[0])}
AllProbabilities(names, p) ==
    [n \in {names[i] : i \in 1..Len(p)} |->
        LET last_i == CHOOSE i \in 1..Len(p) :
                          names[i] = n /\ \A j \in (i + 1)..Len(p) : names[j] # n
        IN  p[last_i]]

\* the keys of the all_probabilities dictionary in insertion order
RECURSIVE AllProbabilitiesKeys(_, _)
AllProbabilitiesKeys(names, n) ==
    IF n = 0 THEN <<>>
    ELSE LET before == AllProbabilitiesKeys(names, n - 1)
         IN  IF \E k \in 1..Len(before) : before[k] = names[n]
             THEN before ELSE Append(before, names[n])

NoResult ==
    [predicted_class |-> "", predicted_class_id |-> -1, confidence |-> 0,
     all_probabilities |-> <<>>, all_probabilities_keys |-> <<>>]

\* the result dictionary predict builds from the probability vector
PredictionResult(self, probabilities) ==
    LET predicted_class == ArgMax(probabilities)
        confidence == probabilities[predicted_class + 1]
    IN  [predicted_class |-> ClassName(self.class_names, predicted_class),
         predicted_class_id |-> predicted_class,
         confidence |-> confidence,
         all_probabilities |-> AllProbabilities(self.class_names, probabilities),
         all_probabilities_keys |->
             AllProbabilitiesKeys(self.class_names, Len(probabilities))]

\* predict that answers a failure with the first class instead of raising
PredictFailureDefaultClass(self, err, stage) ==
    [ok |-> TRUE,
     result |-> [predicted_class |-> ClassName(self.class_names, 0),
                 predicted_class_id |-> 0, confidence |-> 0,
                 all_probabilities |-> [n \in {self.class_names[i] :
                                          i \in 1..Len(self.class_names)} |-> 0],
                 all_probabilities_keys |-> self.class_names],
     err |-> err, stage |-> stage, self |-> self]

\* what predict does on a failure of preprocessing or of the forward pass
PredictFailure(self, err, stage) ==
    [ok |-> FALSE, result |-> NoResult, err |-> err, stage |-> stage, self |-> self]

\* ModelPredictor.predict: outcome for the caller and the instance afterwards
Predict(self, image, drop, fault) ==
    LET pre == PreprocessImage(self, image, fault)
    IN  IF ~pre.ok THEN PredictFailure(self, pre.err, "preprocess")
        ELSE IF fault = "oom_forward"
        THEN PredictFailure(self, AllocError, "forward")
        ELSE LET outputs == Forward(self.model, pre.inputs, drop)
                 probabilities == Softmax(outputs)
             IN  [ok |-> TRUE,
                  result |-> PredictionResult(self, probabilities),
                  err |-> NoError, stage |-> "none",
                  self |-> [self EXCEPT !.model =
                      BatchNormBuffers(@, FusedPreNorm(@, pre.inputs))]]

(* ------------- the steps of one predict call, in the order run --------- *)
\* one step: what ran, whose outputs it read, the colour mode of the image it
\* was given (transforms only) and whether it converted the colour mode
Step(stage, reads, mode, converted) ==
    [stage |-> stage, reads |-> reads, mode |-> mode, converted |-> converted]

\* `if image.mode != 'RGB': image = image.convert('RGB')`
RgbStep(image) == Step("rgb", {"image"}, image.mode, ToRGB(image) # image)

\* whether the transform stored under a name returns for the image
TransformReturns(name, self, rgb) ==
    CASE name = "dct" -> DCTTransform(rgb).ok
      [] name = "stft" -> STFTTransform(rgb).ok
      [] name = "wavelet" -> WaveletTransform(rgb).ok
      [] OTHER -> LearnableFrequencyTransform(self.transforms.freq_filter, rgb).ok

\* the loop over self.transforms.items(): each transform on the same image, in
\* the mapping's iteration order, up to the first one that raises
RECURSIVE TransformSteps(_, _, _, _)
TransformSteps(self, rgb, order, k) ==
    IF k > Len(order) THEN <<>>
    ELSE IF ~TransformReturns(order[k], self, rgb) THEN <<>>
    ELSE <<Step(order[k], {"rgb"}, rgb.mode, FALSE)>>
             \o TransformSteps(self, rgb, order, k + 1)

\* preprocess_image as the steps it completes
PreprocessSteps(self, image, order, fault) ==
    IF fault = "oom_transform" THEN <<RgbStep(image)>>
    ELSE <<RgbStep(image)>> \o TransformSteps(self, ToRGB(image), order, 1)

\* MidFusionNet.forward: the eight branches as wired, each on the input it
\* looks up by key
BranchSteps ==
    [k \in 1..Len(ForwardWiring) |->
        Step(ForwardWiring[k].branch, {ForwardWiring[k].input}, "", FALSE)]

\* torch.cat, self.fusion_encoder, self.classifier
HeadSteps ==
    <<Step("cat", {ForwardWiring[k].branch : k \in 1..Len(ForwardWiring)}, "", FALSE),
      Step("fusion_encoder", {"cat"}, "", FALSE),
      Step("classifier", {"fusion_encoder"}, "", FALSE)>>

\* arg-max taken from the logits before the softmax is computed
TailStepsArgMaxFirst ==
    <<Step("argmax", {"classifier"}, "", FALSE),
      Step("softmax", {"classifier"}, "", FALSE)>>

\* torch.softmax on the outputs, torch.argmax on the probabilities
TailSteps ==
    <<Step("softmax", {"classifier"}, "", FALSE),
      Step("argmax", {"softmax"}, "", FALSE)>>

\* ModelPredictor.predict as the steps it completes before returning or raising
PredictSteps(self, image, order, fault) ==
    LET pre == PreprocessSteps(self, image, order, fault)
    IN  IF Len(pre) < 1 + Len(order) \/ fault = "oom_forward" THEN pre
        ELSE pre \o BranchSteps \o HeadSteps \o TailSteps

\* a get_predictor without the `is None` test: constructs on every call
GetPredictorAlwaysNew(pred, hp, wf, seed, mask) ==
    LET obj == ModelPredictor(wf, seed, mask)
    IN  IF obj.ok
        THEN [ok |-> TRUE, predictor |-> Len(hp) + 1, heap |-> Append(hp, obj),
              ret |-> Len(hp) + 1, err |-> NoError]
        ELSE [ok |-> FALSE, predictor |-> None, heap |-> Append(hp, obj),
              ret |-> None, err |-> obj.err]

\* get_predictor run without interruption (one event-loop turn): construct on
\* the first call, reuse afterwards
GetPredictor(pred, hp, wf, seed, mask) ==
    IF pred # None
    THEN [ok |-> TRUE, predictor |-> pred, heap |-> hp, ret |-> pred, err |-> NoError]
    ELSE LET obj == ModelPredictor(wf, seed, mask)
         IN  IF obj.ok
             THEN [ok |-> TRUE, predictor |-> Len(hp) + 1, heap |-> Append(hp, obj),
                   ret |-> Len(hp) + 1, err |-> NoError]
             ELSE [ok |-> FALSE, predictor |-> None, heap |-> Append(hp, obj),
                   ret |-> None, err |-> obj.err]

\* the random draws a call of get_predictor can make: none once the
\* singleton is set, since nothing is constructed then
SeedsFor(pred) == IF pred = None THEN 1..NumSeeds ELSE {1}

MasksFor(pred) == IF pred = None THEN 1..NumMasks ELSE {1}

\* the dropout draws a forward pass of instance i can make: none in eval mode
DropMasksFor(hp, i) ==
    IF i # None /\ hp[i].model.training THEN DropMasks ELSE {{}}

\* whether a call of get_predictor stays within the model's bound on
\* constructions
WithinInst(pred, hp) == pred # None \/ Len(hp) < MaxInst

\* whether one more forward pass of instance i stays within the model's bound
WithinBatches(hp, i) ==
    i # None => (hp[i].model.training => hp[i].model.bn_batches < MaxBatches)

\* validate_image_file: extension allowed and the bytes open as an image
ValidateImageFile(upload) == upload.ext_ok /\ upload.header_ok

(* -------------------------- cassava_validator.py ---------------------- *)
VALIDATOR_THRESHOLD_TENTHS == 5

Min(a, b) == IF a < b THEN a ELSE b

Max(a, b) == IF a > b THEN a ELSE b

\* the confidence scale: 10000 is 1.0, a feature is in hundredths
CONFIDENCE_ONE == 10000

\* np.mean(g > r) * np.mean(g > b), in hundredths, from the image's content
GreenDominance(image) == Min(100, 70 * image.pix)

\* np.std(img_array) / 255.0, in hundredths
ColorVariance(image) == Min(100, 20 * image.pix)

\* np.mean(g) / 255.0, in hundredths
GreenIntensity(image) == Min(100, 38 * image.pix)

\* 1.0 - np.std(img_array) / 128.0, in hundredths
Uniformity(image) == 100 - Min(99, 40 * image.pix)

\* a validator whose score is not clamped and can leave [0, 1]
CheckLeafCharacteristicsUnclamped(image) ==
    IF image.truncated THEN [ok |-> FALSE, val |-> 0, err |-> TruncatedError]
    ELSE [ok |-> TRUE,
          val |-> GreenDominance(image) * 35 + Min(ColorVariance(image) * 2, 100) * 25
                  + GreenIntensity(image) * 25
                  + (100 - Min(Uniformity(image), 100)) * 15 - 100,
          err |-> NoError]

\* _check_leaf_characteristics: loads the pixels (convert, resize), then the
\* weighted sum of the four features, clamped to [0, 1]
CheckLeafCharacteristics(image) ==
    IF image.truncated THEN [ok |-> FALSE, val |-> 0, err |-> TruncatedError]
    ELSE [ok |-> TRUE,
          val |-> Min(Max(GreenDominance(image) * 35
                          + Min(ColorVariance(image) * 2, 100) * 25
                          + GreenIntensity(image) * 25
                          + (100 - Min(Uniformity(image), 100)) * 15, 0),
                      CONFIDENCE_ONE),
          err |-> NoError]

\* CassavaValidator.validate with the threshold get_validator passes; raised is
\* whether the call raised instead of returning the triple
Validate(image) ==
    LET score == CheckLeafCharacteristics(image)
        confidence == score.val
        is_cassava == confidence * 10 >= VALIDATOR_THRESHOLD_TENTHS * CONFIDENCE_ONE
    IN  IF score.ok
        THEN [raised |-> FALSE, is_cassava |-> is_cassava, confidence |-> confidence,
              message |-> IF is_cassava THEN "Valid cassava leaf detected"
                          ELSE "This does not appear to be a cassava leaf"]
        ELSE [raised |-> FALSE, is_cassava |-> FALSE, confidence |-> 0,
              message |-> "Validation error"]

(* -------------------------------- main.py ----------------------------- *)
Uploads ==
    [size : {1, MAX_FILE_SIZE, MAX_FILE_SIZE + 1}, ext_ok : BOOLEAN,
     header_ok : BOOLEAN, image : Images]

NoImage == [mode |-> "", odd |-> FALSE, pix |-> -1, truncated |-> FALSE]

\* the shape of every recorded outcome; stage, inst, img and fault are
\* bookkeeping the caller does not see
Resp0 ==
    [op |-> "", status |-> 0, health |-> "", model_loaded |-> FALSE,
     has_result |-> FALSE, result |-> NoResult, detail |-> <<>>,
     is_cassava_leaf |-> "n/a", stage |-> "none", inst |-> None, img |-> NoImage,
     fault |-> "none"]

\* startup_event that logs the failure and does not re-raise it
StartupEventSwallows(gp) == FALSE

\* startup_event re-raises what get_predictor raised
StartupEventRaises(gp) == ~gp.ok

\* uvicorn's lifespan: a startup handler that raises ends the process
AfterStartup(raised) == IF raised THEN "exited" ELSE "serving"

\* body of GET /
RootResponse == [Resp0 EXCEPT !.op = "root", !.status = 200, !.health = "healthy"]

\* the body /health builds from the predictor it was given
HealthBody(self) ==
    [Resp0 EXCEPT !.op = "health", !.status = 200, !.health = "healthy",
                  !.model_loaded = self.model_set]

\* GET /health, from the outcome of get_predictor
HealthResponse(gp) ==
    IF gp.ok
    THEN [HealthBody(gp.heap[gp.ret]) EXCEPT !.inst = gp.ret]
    ELSE [Resp0 EXCEPT !.op = "health", !.status = 200, !.health = "unhealthy",
                       !.detail = <<gp.err.msg>>]

\* the body /model-info builds from the predictor it was given
ModelInfoBody(self) ==
    [Resp0 EXCEPT !.op = "model-info", !.status = 200,
                  !.model_loaded = self.model_set]

\* GET /model-info, from the outcome of get_predictor
ModelInfoResponse(gp) ==
    IF gp.ok
    THEN [ModelInfoBody(gp.heap[gp.ret]) EXCEPT !.inst = gp.ret]
    ELSE [Resp0 EXCEPT !.op = "model-info", !.status = 500,
                       !.detail = <<"Error getting model info: ", gp.err.msg>>]

\* the except-Exception clause of predict_image
InternalServerError(err, stage, inst, image, fault) ==
    [Resp0 EXCEPT !.op = "predict", !.status = 500,
                  !.detail = <<"Internal server error: ", err.msg>>,
                  !.stage = stage, !.inst = inst, !.img = image, !.fault = fault]

\* POST /predict up to the predictor: the response of a rejected upload,
\* or Resp0 when the upload goes on to the predictor
RejectUpload(upload) ==
    IF upload.size > MAX_FILE_SIZE
    THEN [Resp0 EXCEPT !.op = "predict", !.status = 413, !.detail = <<"File too large">>]
    ELSE IF ~ValidateImageFile(upload)
    THEN [Resp0 EXCEPT !.op = "predict", !.status = 400,
                       !.detail = <<"Invalid image file">>]
    ELSE IF ~Validate(upload.image).is_cassava
    THEN [Resp0 EXCEPT !.op = "predict", !.status = 200,
                       !.detail = <<"Not a cassava leaf">>,
                       !.is_cassava_leaf = "false", !.img = upload.image]
    ELSE Resp0

\* POST /predict from the predictor on: response and heap afterwards
PredictResponse(gp, upload, drop, fault) ==
    IF ~gp.ok
    THEN [resp |-> InternalServerError(gp.err, "construct", None, upload.image,
                                       fault),
          heap |-> gp.heap]
    ELSE LET out == Predict(gp.heap[gp.ret], upload.image, drop, fault)
         IN  IF out.ok
             THEN [resp |-> [Resp0 EXCEPT !.op = "predict", !.status = 200,
                                 !.has_result = TRUE, !.result = out.result,
                                 !.is_cassava_leaf = "true", !.stage = out.stage,
                                 !.inst = gp.ret, !.img = upload.image,
                                 !.fault = fault],
                   heap |-> [gp.heap EXCEPT ![gp.ret] = out.self]]
             ELSE [resp |-> InternalServerError(out.err, out.stage, gp.ret,
                                                upload.image, fault),
                   heap |-> [gp.heap EXCEPT ![gp.ret] = out.self]]

(* ----------- main.py, the request handlers step by step ---------------- *)
\* what can go wrong outside the handlers' own checks: constructing the
\* shared validator (it builds a pretrained MobileNetV2), writing the PDF
ValidatorFaults == {"none", "init"}

PdfFaults == {"none", "write"}

ValidatorInitError == [type |-> "RuntimeError", msg |-> "could not build validator"]

PdfError == [type |-> "OSError", msg |-> "could not write report"]

\* get_validator(): construct on the first call, reuse afterwards
GetValidator(val, vfault) ==
    IF val # None THEN [ok |-> TRUE, validator |-> val]
    ELSE IF vfault = "init" THEN [ok |-> FALSE, validator |-> None]
    ELSE [ok |-> TRUE, validator |-> 1]

\* a handler that lets every decoded image through to the predictor
CassavaGateOpen(v) == FALSE

\* `if not is_cassava:`
NotCassava(v) == ~v.is_cassava

\* the outcome of a handler: response, steps run, steps of the predict call if
\* one was made, and the module-level state afterwards
Handled(resp, steps, psteps, pred, hp, val) ==
    [resp |-> resp, steps |-> steps, predict |-> psteps,
     predictor |-> pred, heap |-> hp, validator |-> val]

\* predict_image, lines 82-139
PredictImageHandler(pred, hp, wf, val, upload, vfault, fault) ==
    LET sized == <<"read", "size_check">>
        typed == sized \o <<"validate_image_file">>
        opened == typed \o <<"image_open">>
        gv == GetValidator(val, vfault)
        got == opened \o <<"get_validator">>
        v == Validate(upload.image)
        validated == got \o <<"validate">>
        gp == GetPredictor(pred, hp, wf, 1, 1)
        called == validated \o <<"get_predictor">>
    IN  IF upload.size > MAX_FILE_SIZE
        THEN Handled([Resp0 EXCEPT !.op = "predict", !.status = 413,
                                   !.detail = <<"File too large">>],
                     sized, <<>>, pred, hp, val)
        ELSE IF ~ValidateImageFile(upload)
        THEN Handled([Resp0 EXCEPT !.op = "predict", !.status = 400,
                                   !.detail = <<"Invalid image file">>],
                     typed, <<>>, pred, hp, val)
        ELSE IF ~gv.ok
        THEN Handled(InternalServerError(ValidatorInitError, "validator", None,
                                         upload.image, fault),
                     got, <<>>, pred, hp, gv.validator)
        ELSE IF NotCassava(v)
        THEN Handled([Resp0 EXCEPT !.op = "predict", !.status = 200,
                                   !.detail = <<"Not a cassava leaf">>,
                                   !.is_cassava_leaf = "false",
                                   !.img = upload.image],
                     validated, <<>>, pred, hp, gv.validator)
        ELSE IF ~gp.ok
        THEN Handled(PredictResponse(gp, upload, {}, fault).resp,
                     called, <<>>, gp.predictor, gp.heap, gv.validator)
        ELSE LET out == PredictResponse(gp, upload, {}, fault)
             IN  Handled(out.resp, called \o <<"predict">>,
                         PredictSteps(gp.heap[gp.ret], upload.image,
                                      TransformNames, fault),
                         gp.predictor, out.heap, gv.validator)

\* generate_report, lines 153-196
GenerateReportHandler(pred, hp, wf, val, upload, vfault, fault, pdf) ==
    LET sized == <<"read", "size_check">>
        typed == sized \o <<"validate_image_file">>
        opened == typed \o <<"image_open">>
        gv == GetValidator(val, vfault)
        got == opened \o <<"get_validator">>
        v == Validate(upload.image)
        validated == got \o <<"validate">>
        gp == GetPredictor(pred, hp, wf, 1, 1)
        called == validated \o <<"get_predictor">>
        report == [Resp0 EXCEPT !.op = "generate-report"]
        failed(err, stage, inst) ==
            [report EXCEPT !.status = 500,
                           !.detail = <<"Error generating report: ", err.msg>>,
                           !.stage = stage, !.inst = inst, !.img = upload.image,
                           !.fault = fault]
    IN  IF upload.size > MAX_FILE_SIZE
        THEN Handled([report EXCEPT !.status = 413, !.detail = <<"File too large">>],
                     sized, <<>>, pred, hp, val)
        ELSE IF ~ValidateImageFile(upload)
        THEN Handled([report EXCEPT !.status = 400,
                                    !.detail = <<"Invalid image file">>],
                     typed, <<>>, pred, hp, val)
        ELSE IF ~gv.ok
        THEN Handled(failed(ValidatorInitError, "validator", None),
                     got, <<>>, pred, hp, gv.validator)
        ELSE IF ~v.is_cassava
        THEN Handled([report EXCEPT !.status = 400,
                                    !.detail = <<"Not a cassava leaf">>,
                                    !.is_cassava_leaf = "false",
                                    !.img = upload.image],
                     validated, <<>>, pred, hp, gv.validator)
        ELSE IF ~gp.ok
        THEN Handled(failed(gp.err, "construct", None),
                     called, <<>>, gp.predictor, gp.heap, gv.validator)
        ELSE LET out == Predict(gp.heap[gp.ret], upload.image, {}, fault)
                 after == [gp.heap EXCEPT ![gp.ret] = out.self]
                 psteps == PredictSteps(gp.heap[gp.ret], upload.image,
                                        TransformNames, fault)
             IN  IF ~out.ok
                 THEN Handled(failed(out.err, out.stage, gp.ret),
                              called \o <<"predict">>, psteps,
                              gp.predictor, after, gv.validator)
                 ELSE IF pdf = "write"
                 THEN Handled(failed(PdfError, "report", gp.ret),
                              called \o <<"predict", "generate_report">>, psteps,
                              gp.predictor, after, gv.validator)
                 ELSE Handled([report EXCEPT !.status = 200,
                                             !.detail = <<"application/pdf">>,
                                             !.is_cassava_leaf = "true",
                                             !.inst = gp.ret,
                                             !.img = upload.image],
                              called \o <<"predict", "generate_report">>, psteps,
                              gp.predictor, after, gv.validator)

\* no network under construction, no transform or forward pass recorded
NoNet == [phase |-> "none"]

NoRun == [op |-> ""]

\* no request handled yet
NoTrace == [op |-> "", steps |-> <<>>, predict |-> <<>>]

(* ------------------------- the service (uvicorn) ----------------------- *)
Init ==
    /\ weightFile \in {"missing", "ok", "mismatch"}
    /\ predictor = None
    /\ heap = <<>>
    /\ server = "starting"
    /\ last = Resp0
    /\ pc = [t \in Threads |-> "idle"]
    /\ held = [t \in Threads |-> None]
    /\ net = NoNet
    /\ run = NoRun
    /\ validator = None
    /\ trace = NoTrace

StartupEvent ==
    /\ server = "starting"
    /\ \E seed \in SeedsFor(predictor), mask \in MasksFor(predictor) :
         LET gp == GetPredictor(predictor, heap, weightFile, seed, mask)
             raised == StartupEventRaises(gp)
         IN  /\ predictor' = gp.predictor
             /\ heap' = gp.heap
             /\ server' = AfterStartup(raised)
             /\ last' = [Resp0 EXCEPT !.op = "startup",
                                      !.status = IF raised THEN 500 ELSE 200,
                                      !.inst = gp.ret]
    /\ UNCHANGED <<validator, trace, net, run, weightFile, pc, held>>

Root ==
    /\ server = "serving"
    /\ last' = RootResponse
    /\ UNCHANGED <<validator, trace, net, run, weightFile, predictor, heap, server, pc, held>>

HealthCheck ==
    /\ server = "serving"
    /\ WithinInst(predictor, heap)
    /\ \E seed \in SeedsFor(predictor), mask \in MasksFor(predictor) :
         LET gp == GetPredictor(predictor, heap, weightFile, seed, mask)
         IN  /\ predictor' = gp.predictor
             /\ heap' = gp.heap
             /\ last' = HealthResponse(gp)
    /\ UNCHANGED <<validator, trace, net, run, weightFile, server, pc, held>>

GetModelInfo ==
    /\ server = "serving"
    /\ WithinInst(predictor, heap)
    /\ \E seed \in SeedsFor(predictor), mask \in MasksFor(predictor) :
         LET gp == GetPredictor(predictor, heap, weightFile, seed, mask)
         IN  /\ predictor' = gp.predictor
             /\ heap' = gp.heap
             /\ last' = ModelInfoResponse(gp)
    /\ UNCHANGED <<validator, trace, net, run, weightFile, server, pc, held>>

PredictImage ==
    /\ server = "serving"
    /\ WithinInst(predictor, heap)
    /\ WithinBatches(heap, predictor)
    /\ \E upload \in Uploads :
         LET rejected == RejectUpload(upload)
         IN  IF rejected # Resp0
             THEN /\ last' = rejected
                  /\ UNCHANGED <<predictor, heap>>
             ELSE \E seed \in SeedsFor(predictor), mask \in MasksFor(predictor) :
                    LET gp == GetPredictor(predictor, heap, weightFile, seed, mask)
                    IN  \E drop \in DropMasksFor(gp.heap, gp.ret), fault \in Faults :
                          LET out == PredictResponse(gp, upload, drop, fault)
                          IN  /\ predictor' = gp.predictor
                              /\ heap' = out.heap
                              /\ last' = out.resp
    /\ UNCHANGED <<validator, trace, net, run, weightFile, server, pc, held>>

Next == StartupEvent \/ Root \/ HealthCheck \/ GetModelInfo \/ PredictImage

Spec == Init /\ [][Next]_vars

(* ------------- get_predictor called from several threads --------------- *)
InitThreads ==
    /\ weightFile \in {"missing", "ok", "mismatch"}
    /\ predictor = None
    /\ heap = <<>>
    /\ server = "none"
    /\ last = Resp0
    /\ pc = [t \in Threads |-> "idle"]
    /\ held = [t \in Threads |-> None]
    /\ net = NoNet
    /\ run = NoRun
    /\ validator = None
    /\ trace = NoTrace

\* `if predictor is None:` read by thread t
GpCheck(t) ==
    /\ pc[t] = "idle"
    /\ pc' = [pc EXCEPT ![t] = IF predictor = None THEN "construct" ELSE "return"]
    /\ UNCHANGED <<validator, trace, net, run, weightFile, predictor, heap, server, last, held>>

\* `predictor = ModelPredictor()` run by thread t
GpConstruct(t) ==
    /\ pc[t] = "construct"
    /\ Len(heap) < MaxInst
    /\ \E seed \in 1..NumSeeds, mask \in 1..NumMasks :
         LET obj == ModelPredictor(weightFile, seed, mask)
         IN  /\ heap' = Append(heap, obj)
             /\ predictor' = IF obj.ok THEN Len(heap) + 1 ELSE predictor
             /\ pc' = [pc EXCEPT ![t] = IF obj.ok THEN "return" ELSE "raised"]
    /\ UNCHANGED <<validator, trace, net, run, weightFile, server, last, held>>

\* `return predictor` run by thread t
GpReturn(t) ==
    /\ pc[t] = "return"
    /\ held' = [held EXCEPT ![t] = predictor]
    /\ pc' = [pc EXCEPT ![t] = "have"]
    /\ UNCHANGED <<validator, trace, net, run, weightFile, predictor, heap, server, last>>

\* thread t is done with its call and may call get_predictor again
ThreadAgain(t) ==
    /\ pc[t] \in {"have", "raised"}
    /\ pc' = [pc EXCEPT ![t] = "idle"]
    /\ held' = [held EXCEPT ![t] = None]
    /\ UNCHANGED <<validator, trace, net, run, weightFile, predictor, heap, server, last>>

NextThreads ==
    \E t \in Threads :
        GpCheck(t) \/ GpConstruct(t) \/ GpReturn(t) \/ ThreadAgain(t)

SpecThreads == InitThreads /\ [][NextThreads]_vars

(* ------- building a MidFusionNet and running it, through shapes -------- *)
InitShapes ==
    /\ weightFile = "missing"
    /\ predictor = None
    /\ heap = <<>>
    /\ server = "none"
    /\ last = Resp0
    /\ pc = [t \in Threads |-> "idle"]
    /\ held = [t \in Threads |-> None]
    /\ net = NoNet
    /\ run = NoRun
    /\ validator = None
    /\ trace = NoTrace

\* MidFusionNet.__init__, lines 11-30
BuildBranches ==
    /\ net.phase = "none"
    /\ \E arch \in Archs : net' = NetWithBranches(arch)
    /\ UNCHANGED <<validator, trace, run, weightFile, predictor, heap, server, last, pc, held>>

\* MidFusionNet.__init__, lines 33-44
DryRunStep ==
    /\ net.phase = "branches"
    /\ net' = DryRun(net)
    /\ UNCHANGED <<validator, trace, run, weightFile, predictor, heap, server, last, pc, held>>

\* MidFusionNet.__init__, lines 47-59
BuildHeadStep ==
    /\ net.phase = "measured"
    /\ net' = BuildHead(net)
    /\ UNCHANGED <<validator, trace, run, weightFile, predictor, heap, server, last, pc, held>>

\* load_model after the constructor: load_state_dict when the file exists
LoadWeights ==
    /\ net.phase = "built"
    /\ \/ \E file \in WeightFiles :
            net' = [net EXCEPT !.phase = "ready",
                               !.blocks = LoadKeys(net.blocks, net.branches, file, 1)]
       \/ net' = [net EXCEPT !.phase = "ready"]
    /\ UNCHANGED <<validator, trace, run, weightFile, predictor, heap, server, last, pc, held>>

\* one of the four transforms applied to an image
ApplyTransform ==
    /\ net.phase = "ready"
    /\ \E k \in 1..Len(TransformNames), simg \in SizedImages, mask \in 1..NumMasks :
          /\ (TransformNames[k] # "learn" => mask = 1)
          /\ run' = [op |-> "transform", name |-> TransformNames[k], img |-> simg,
                     mask |-> mask, out |-> ApplyNamed(TransformNames[k], mask, simg)]
    /\ UNCHANGED <<validator, trace, net, weightFile, predictor, heap, server, last, pc, held>>

\* preprocess_image followed by the model's forward
PredictShapes ==
    /\ net.phase = "ready"
    /\ \E simg \in SizedImages :
          /\ simg.pix = 0
          /\ LET inputs == [name \in {"dct", "stft", "wavelet", "learn"} |->
                               ApplyNamed(name, 1, simg)]
                 failed == {name \in DOMAIN inputs : ~inputs[name].ok}
             IN  run' = IF failed # {}
                        THEN [op |-> "forward", img |-> simg, ok |-> FALSE,
                              stage |-> "preprocess"]
                        ELSE [op |-> "forward", img |-> simg, ok |-> TRUE,
                              stage |-> "forward",
                              out |-> ForwardShapes(net, inputs)]
    /\ UNCHANGED <<validator, trace, net, weightFile, predictor, heap, server, last, pc, held>>

NextShapes ==
    BuildBranches \/ DryRunStep \/ BuildHeadStep \/ LoadWeights
        \/ ApplyTransform \/ PredictShapes

SpecShapes == InitShapes /\ [][NextShapes]_vars

(* ---------- the two upload handlers, served without the startup -------- *)
\* uploads of the requests: at the size limit or one byte over it; the pixels
\* of an upload that is turned away before it is decoded are never looked at,
\* so one image stands for all of them
RequestUploads ==
    {u \in Uploads :
        /\ u.size >= MAX_FILE_SIZE
        /\ (u.size > MAX_FILE_SIZE \/ ~ValidateImageFile(u))
               => u.image = [mode |-> "RGB", odd |-> FALSE, pix |-> 0,
                             truncated |-> FALSE]}

\* the application as imported: nothing constructed yet; the weight file is
\* present, and matches the architecture or does not
InitRequests ==
    /\ weightFile \in {"ok", "mismatch"}
    /\ predictor = None
    /\ heap = <<>>
    /\ server = "serving"
    /\ last = Resp0
    /\ pc = [t \in Threads |-> "idle"]
    /\ held = [t \in Threads |-> None]
    /\ net = NoNet
    /\ run = NoRun
    /\ validator = None
    /\ trace = NoTrace

\* the environment's choices that the request can meet at all
Meets(upload, vfault, fault, pdf) ==
    LET early == upload.size > MAX_FILE_SIZE \/ ~ValidateImageFile(upload)
        gate == early \/ ~Validate(upload.image).is_cassava
    IN  /\ (vfault # "none" => (validator = None /\ ~early))
        /\ (fault # "none" => ~gate /\ vfault = "none" /\ weightFile = "ok")
        /\ (pdf # "none" => ~gate /\ vfault = "none" /\ fault = "none"
                             /\ ~upload.image.odd /\ weightFile = "ok")

\* POST /predict
PredictRequest ==
    /\ WithinInst(predictor, heap)
    /\ \E upload \in RequestUploads, vfault \in ValidatorFaults, fault \in Faults :
          /\ Meets(upload, vfault, fault, "none")
          /\ LET h == PredictImageHandler(predictor, heap, weightFile, validator,
                                          upload, vfault, fault)
             IN  /\ last' = h.resp
                 /\ trace' = [op |-> "predict", upload |-> upload, steps |-> h.steps,
                              predict |-> h.predict]
                 /\ predictor' = h.predictor
                 /\ heap' = h.heap
                 /\ validator' = h.validator
    /\ UNCHANGED <<weightFile, server, pc, held, net, run>>

\* POST /generate-report
ReportRequest ==
    /\ WithinInst(predictor, heap)
    /\ \E upload \in RequestUploads, vfault \in ValidatorFaults, fault \in Faults,
          pdf \in PdfFaults :
          /\ Meets(upload, vfault, fault, pdf)
          /\ LET h == GenerateReportHandler(predictor, heap, weightFile, validator,
                                            upload, vfault, fault, pdf)
             IN  /\ last' = h.resp
                 /\ trace' = [op |-> "generate-report", upload |-> upload,
                              steps |-> h.steps, predict |-> h.predict]
                 /\ predictor' = h.predictor
                 /\ heap' = h.heap
                 /\ validator' = h.validator
    /\ UNCHANGED <<weightFile, server, pc, held, net, run>>

NextRequests == PredictRequest \/ ReportRequest

SpecRequests == InitRequests /\ [][NextRequests]_vars

(* ============================== claims ================================= *)
\* instances whose __init__ returned
Constructed == {i \in DOMAIN heap : heap[i].ok}

\* the fields of an outcome its caller sees
Visible(r) ==
    [status |-> r.status, health |-> r.health, model_loaded |-> r.model_loaded,
     has_result |-> r.has_result, result |-> r.result, detail |-> r.detail,
     is_cassava_leaf |-> r.is_cassava_leaf]

\* C1: whatever the interleaving of concurrent first calls of get_predictor,
\* at most one ModelPredictor is constructed and all callers that were given
\* an instance were given the same one.
C1_ConstructedOnce ==
    /\ Cardinality(Constructed) <= 1
    /\ \A t1, t2 \in Threads :
         (pc[t1] = "have" /\ pc[t2] = "have") => held[t1] = held[t2]

\* C2: a predict call that returns leaves the singleton reference and every
\* instance (parameters, buffers, mask, class names) as they were.
C2_PredictLeavesSharedStateUnchanged ==
    [][(last'.op = "predict" /\ last'.inst # None)
          => (heap' = heap /\ predictor' = predictor)]_vars

\* C3: two successive predict calls on the same instance with the same image
\* and the same parameters and mask return the same result.
C3_PredictDeterministic ==
    [][(/\ last.op = "predict" /\ last.has_result
        /\ last'.op = "predict" /\ last'.has_result
        /\ last'.inst = last.inst /\ last'.img = last.img
        /\ heap'[last.inst].model.params = heap[last.inst].model.params
        /\ heap'[last.inst].transforms = heap[last.inst].transforms)
          => last'.result = last.result]_vars

\* a result dictionary with a label, an index, a confidence and one
\* probability per class label
WellFormed(r) ==
    /\ r.predicted_class_id \in ClassIds
    /\ r.predicted_class \in {CLASS_NAMES[i] : i \in 1..Len(CLASS_NAMES)}
    /\ r.confidence \in 0..Scale
    /\ DOMAIN r.all_probabilities = {CLASS_NAMES[i] : i \in 1..Len(CLASS_NAMES)}

\* C4: with no weight file, construction succeeds with the weights as
\* initialised and every predict call on a decoded image that meets no
\* allocation failure returns a well-formed result.
C4_DegradedModePredicts ==
    weightFile = "missing" =>
        /\ server # "exited"
        /\ \A i \in DOMAIN heap : heap[i].ok /\ heap[i].model.params # 0
        /\ server = "serving" => predictor \in Constructed
        /\ (last.op = "predict" /\ last.is_cassava_leaf # "false"
              /\ last.status \notin {400, 413} /\ last.fault = "none")
             => (last.has_result /\ WellFormed(last.result))

\* the part of C4 that the code meets: as C4, for images of even height and
\* width
C4_DegradedModePredictsEvenSized ==
    weightFile = "missing" =>
        /\ server # "exited"
        /\ \A i \in DOMAIN heap : heap[i].ok /\ heap[i].model.params # 0
        /\ server = "serving" => predictor \in Constructed
        /\ (last.op = "predict" /\ last.is_cassava_leaf # "false"
              /\ last.status \notin {400, 413} /\ last.fault = "none"
              /\ ~last.img.odd)
             => (last.has_result /\ WellFormed(last.result))

\* C5: with a weight file that does not match the architecture, no
\* construction returns, the singleton stays unset and no predict call is made.
C5_MismatchIsFatal ==
    weightFile = "mismatch" =>
        /\ Constructed = {}
        /\ predictor = None
        /\ server # "serving"
        /\ last.op \notin {"predict", "health", "model-info", "root"}
        /\ ~last.has_result

C5_Witness ==
    /\ weightFile = "mismatch"
    /\ Len(heap) = 1 /\ ~heap[1].ok
    /\ server = "exited"
    /\ last.op = "startup" /\ last.status = 500

\* some construction raised
ConstructionFailed == \E i \in DOMAIN heap : ~heap[i].ok

\* C6: once a construction has failed, no status surface reports healthy and
\* no request is answered with a prediction.
C6_NoHealthyAfterConstructionFailure ==
    ConstructionFailed =>
        /\ last.health # "healthy"
        /\ ~last.has_result
        /\ last.op \notin {"predict", "root", "health", "model-info"}
        /\ server = "exited"

C6_Witness ==
    /\ ConstructionFailed
    /\ server = "exited"
    /\ predictor = None

\* an instance running on randomly initialised weights
Degraded(i) == i \in DOMAIN heap /\ heap[i].ok /\ heap[i].model.params # 0

\* an instance as constructed when the weight file loads
LoadedInstance == ModelPredictor("ok", 1, 1)

\* C7: what /health and /model-info report for a predictor in degraded mode
\* differs from what they report for a predictor whose weights were loaded.
C7_DegradedModeReported ==
    /\ (last.op = "health" /\ Degraded(last.inst))
          => Visible(last) # Visible(HealthBody(LoadedInstance))
    /\ (last.op = "model-info" /\ Degraded(last.inst))
          => Visible(last) # Visible(ModelInfoBody(LoadedInstance))

\* C8: a predict call in which preprocessing or the forward pass failed
\* returns no result; its caller gets the failure.
C8_FailurePropagates ==
    (last.op = "predict" /\ last.stage \in {"preprocess", "forward"}) =>
        /\ ~last.has_result
        /\ last.result = NoResult
        /\ last.status = 500
        /\ last.is_cassava_leaf = "n/a"

C8_Witness ==
    /\ last.op = "predict"
    /\ last.stage = "forward"
    /\ last.inst = predictor
    /\ last.status = 500

\* the outcomes a caller of /predict can get from a failed forward pass
ForwardFailureOutcomes ==
    {Visible(InternalServerError(AllocError, "forward", None, NoImage, "none"))}

\* C9: the outcome of a request whose preprocessing failed is not an outcome
\* a failed forward pass can produce.
C9_FailureStageDistinguishable ==
    (last.op = "predict" /\ last.stage = "preprocess")
        => Visible(last) \notin ForwardFailureOutcomes

\* C10: in a returned result the index is a position of the maximum of the
\* probabilities, the label is the class name at that index, and the
\* confidence is the probability stored under that label, the largest stored.
C10_ResultIsArgMax ==
    last.has_result =>
        LET r == last.result
        IN  /\ r.predicted_class_id \in ClassIds
            /\ r.predicted_class = CLASS_NAMES[r.predicted_class_id + 1]
            /\ r.confidence = r.all_probabilities[r.predicted_class]
            /\ \A n \in DOMAIN r.all_probabilities :
                 r.all_probabilities[n] <= r.confidence
            /\ \A j \in 0..(r.predicted_class_id - 1) :
                 r.all_probabilities[CLASS_NAMES[j + 1]] < r.confidence

C10_Witness ==
    /\ last.has_result
    /\ last.result.predicted_class_id > 0
    /\ \E n \in DOMAIN last.result.all_probabilities :
         last.result.all_probabilities[n] < last.result.confidence

\* the spec's tolerance of 1e-4 on the sum of the probabilities
SumTolerance == Scale \div 10000

\* the sum of the values of a result's probability mapping
ProbabilitySum(r) ==
    SumSeq([k \in 1..Len(r.all_probabilities_keys) |->
               r.all_probabilities[r.all_probabilities_keys[k]]])

\* the mapping of a result has one entry per configured label, in list order,
\* each between 0 and 1
FiveEntriesInRange(r) ==
    /\ r.all_probabilities_keys = CLASS_NAMES
    /\ Len(r.all_probabilities_keys) = NUM_CLASSES
    /\ DOMAIN r.all_probabilities = {CLASS_NAMES[i] : i \in 1..NUM_CLASSES}
    /\ \A n \in DOMAIN r.all_probabilities :
         r.all_probabilities[n] >= 0 /\ r.all_probabilities[n] <= Scale

\* C11 as stated: every returned mapping has the five labels in list order,
\* values between 0 and 1, and the values sum to exactly 1.
C11_ProbabilitiesSumToOneExactly ==
    last.has_result =>
        (FiveEntriesInRange(last.result) /\ ProbabilitySum(last.result) = Scale)

\* C11: every returned mapping has the five labels in list order, values
\* between 0 and 1, and the values sum to 1 within the tolerance of 1e-4.
C11_ProbabilitiesSumToOne ==
    last.has_result =>
        /\ FiveEntriesInRange(last.result)
        /\ ProbabilitySum(last.result) - Scale <= SumTolerance
        /\ Scale - ProbabilitySum(last.result) <= SumTolerance

C11_Witness ==
    /\ last.has_result
    /\ FiveEntriesInRange(last.result)
    /\ ProbabilitySum(last.result) # Scale

\* the shape every transform is meant to return
CHW224 == <<3, TENSOR_SIDE, TENSOR_SIDE>>

\* C12: each of the four transforms returns a 3 x 224 x 224 tensor for an image
\* of any resolution, and none of them fails
C12_TransformsTotal ==
    run.op = "transform" => (run.out.ok /\ run.out.shape = CHW224)

\* the same for the images cv2.dct accepts: the only failure is the odd-size one
C12_TransformsTotalOnEvenSizes ==
    (run.op = "transform" /\ ~DctRejects(run.img.h, run.img.w))
        => (run.out.ok /\ run.out.shape = CHW224)

\* C13: the tensors of the DCT, STFT and wavelet transforms have three
\* identical channels
C13_ThreeIdenticalChannels ==
    (run.op = "transform" /\ run.name \in {"dct", "stft", "wavelet"} /\ run.out.ok)
        => /\ Len(run.out.chan) = 3
           /\ run.out.shape[1] = 3
           /\ run.out.chan[1] = run.out.chan[2]
           /\ run.out.chan[2] = run.out.chan[3]

C13_Witness ==
    /\ run.op = "transform"
    /\ run.name = "wavelet"
    /\ run.out.ok
    /\ run.img.pix > 0
    /\ run.out.chan = <<run.img.pix, run.img.pix, run.img.pix>>

\* C14: the vector handed to the classifier has the latent width, which is the
\* input width of the final linear layer, whatever the image's resolution
C14_FusedLengthIsLatent ==
    (run.op = "forward" /\ run.ok)
        => /\ run.out.ok
           /\ run.out.fused_len = LATENT
           /\ net.linear_in = LATENT
           /\ run.out.logits_len = NUM_CLASSES

C14_Witness ==
    /\ run.op = "forward"
    /\ run.ok
    /\ run.out.ok
    /\ run.img.h # TENSOR_SIDE
    /\ run.img.w # run.img.h
    /\ run.out.fused_len = LATENT

\* the module objects a family's branches run through
FamilyBlocks(n, family) ==
    UNION {{n.branches[b][1], n.branches[b][2]} : b \in {x \in BranchNames : FamilyOf(x) = family}}

\* C18: the eight branches reference exactly two parameter sets, one per
\* backbone family; what is loaded into a family is seen by all four of its
\* branches and by no branch of the other family
C18_BranchesShareTwoParameterSets ==
    net.phase # "none"
        => /\ Cardinality({net.branches[b] : b \in BranchNames}) = 2
           /\ \A a, b \in BranchNames :
                 FamilyOf(a) = FamilyOf(b)
                     => /\ net.branches[a] = net.branches[b]
                        /\ BranchParams(net, a) = BranchParams(net, b)
           /\ FamilyBlocks(net, "mnv2") \cap FamilyBlocks(net, "cnx") = {}

C18_Witness ==
    /\ net.phase = "ready"
    /\ BranchParams(net, "mnv2_dct") # <<0, 0>>
    /\ BranchParams(net, "mnv2_dct") = BranchParams(net, "mnv2_learn")
    /\ BranchParams(net, "cnx_wave") # BranchParams(net, "mnv2_wave")

\* the branch outputs can be concatenated along the channel dimension
SpatialAgree(feats) ==
    \A k \in 1..Len(feats) :
        /\ feats[k].ok
        /\ feats[k].shape[2] = feats[1].shape[2]
        /\ feats[k].shape[3] = feats[1].shape[3]

\* C19: a spatial mismatch among the branch outputs is found by the dry run at
\* construction, and never first at request time: every request's tensors have
\* the spatial size of the dummy
C19_MismatchFoundAtConstruction ==
    /\ (net.phase \in {"measured", "built", "ready"}) => SpatialAgree(net.dry_feats)
    /\ (net.phase = "failed") => ~SpatialAgree(net.dry_feats)
    /\ (run.op = "forward" /\ run.ok)
           => /\ run.out.cat_ok
              /\ SpatialAgree(run.out.feats)
              /\ run.out.feats = net.dry_feats

C19_Witness ==
    /\ net.phase = "failed"
    /\ Len(net.dry_feats) = Len(BranchOrder)
    /\ ~SpatialAgree(net.dry_feats)
    /\ net.fusion_in = 0

\* C20: construction is two-phase: each branch is run once on the dummy before
\* the fusion projection exists, and the projection's input width is the
\* concatenated channel width of the eight outputs, which is what forward feeds it
C20_FusionWidthMeasured ==
    /\ (net.phase \in {"branches", "measured", "failed"}) => net.fusion_in = 0
    /\ (net.phase \in {"built", "ready"})
           => /\ net.dry = BranchOrder
              /\ net.fusion_in =
                     SumSeq([k \in 1..Len(net.dry_feats) |-> net.dry_feats[k].shape[1]])
    /\ (run.op = "forward" /\ run.ok /\ run.out.cat_ok)
           => run.out.cat_ch = net.fusion_in

C20_Witness ==
    /\ run.op = "forward"
    /\ run.ok
    /\ run.out.cat_ok
    /\ run.out.cat_ch = net.fusion_in
    /\ net.fusion_in = 4 * TorchvisionBackbones.mnv2.ch + 4 * TorchvisionBackbones.cnx.ch

\* C15: once a predictor has been constructed, every later get_predictor call
\* returns that instance, constructs nothing and reads no weight file; a predict
\* call leaves the loaded weights as they are
C15_ReusedAfterConstruction ==
    [][predictor # None
          => /\ predictor' = predictor
             /\ Len(heap') = Len(heap)
             /\ heap'[predictor].model.params = heap[predictor].model.params
             /\ heap'[predictor].printed = heap[predictor].printed
             /\ last'.inst \in {None, predictor}
             /\ (last'.op \in {"health", "model-info"} => last'.inst = predictor)]_vars

C15_Witness ==
    /\ weightFile = "ok"
    /\ predictor # None
    /\ Len(heap) = 1
    /\ last.op = "predict"
    /\ last.has_result
    /\ last.inst = predictor
    /\ heap[predictor].printed = "Model loaded successfully"

\* C16: during every predict call the model is in inference mode, whether the
\* weights came from the file or the file was missing
C16_InferenceModeDuringPredict ==
    (last.op = "predict" /\ last.inst # None) => ~heap[last.inst].model.training

\* the same for instances whose weights were loaded from the file
C16_InferenceModeWhenLoaded ==
    (last.op = "predict" /\ last.inst # None /\ weightFile = "ok")
        => ~heap[last.inst].model.training

\* C17: when a weight file was loaded at construction, the frequency mask
\* predict uses is the one restored from the weight store
C17_MaskRestoredFromWeightFile ==
    (weightFile = "ok" /\ last.op = "predict" /\ last.has_result)
        => heap[last.inst].transforms.freq_filter = StoredMask

\* the most recent request called predictor.predict
PredictCalled ==
    /\ trace.op \in {"predict", "generate-report"}
    /\ \E k \in 1..Len(trace.steps) : trace.steps[k] = "predict"

\* that predict call returned a result
PredictReturned ==
    /\ PredictCalled
    /\ \/ trace.op = "predict" /\ last.has_result
       \/ trace.op = "generate-report" /\ (last.status = 200 \/ last.stage = "report")

TransformKinds == {TransformNames[k] : k \in 1..Len(TransformNames)}

\* position of a stage in the pipeline: colour normalization, transforms,
\* branches, fusion, classifier, softmax, arg-max
StageRank(stage) ==
    CASE stage = "rgb" -> 1
      [] stage \in TransformKinds -> 2
      [] stage \in BranchNames -> 3
      [] stage \in {"cat", "fusion_encoder"} -> 4
      [] stage = "classifier" -> 5
      [] stage = "softmax" -> 6
      [] stage = "argmax" -> 7
      [] OTHER -> 0

AllStages ==
    {"rgb", "cat", "fusion_encoder", "classifier", "softmax", "argmax"}
        \cup TransformKinds \cup BranchNames

\* the branch steps that read a transform's output
Consumers(p, kind) == {k \in 1..Len(p) : p[k].stage \in BranchNames /\ kind \in p[k].reads}

\* C21: within one predict call the stages run strictly forward, none twice and
\* none on the output of a later one; a call that returns has run every stage
\* exactly once, and each transform output was read by exactly two branches,
\* one of each family
C21_StagesRunForward ==
    PredictCalled =>
        LET p == trace.predict
        IN  /\ \A j, k \in 1..Len(p) :
                  j < k => /\ p[j].stage # p[k].stage
                           /\ StageRank(p[j].stage) <= StageRank(p[k].stage)
            /\ \A k \in 1..Len(p) :
                  /\ StageRank(p[k].stage) > 0
                  /\ \A r \in p[k].reads :
                        r = "image" \/ \E j \in 1..(k - 1) : p[j].stage = r
            /\ PredictReturned <=> {p[k].stage : k \in 1..Len(p)} = AllStages
            /\ PredictReturned =>
                  \A kind \in TransformKinds :
                      /\ Cardinality(Consumers(p, kind)) = 2
                      /\ {FamilyOf(p[k].stage) : k \in Consumers(p, kind)}
                             = {"mnv2", "cnx"}

C21_Witness ==
    /\ PredictReturned
    /\ trace.op = "predict"
    /\ Len(trace.predict) = Cardinality(AllStages)
    /\ trace.predict[1].stage = "rgb"
    /\ trace.predict[Len(trace.predict)].stage = "argmax"

\* C22: an image that is not RGB is converted exactly once per predict call,
\* before any transform; the four transforms all get that RGB image and none
\* converts the colour mode itself
C22_ConvertedOnceAtBoundary ==
    PredictCalled =>
        LET p == trace.predict
        IN  /\ Len(p) >= 1
            /\ p[1].stage = "rgb"
            /\ p[1].mode = trace.upload.image.mode
            /\ Cardinality({k \in 1..Len(p) : p[k].converted})
                   = IF trace.upload.image.mode # "RGB" THEN 1 ELSE 0
            /\ \A k \in 1..Len(p) :
                  p[k].stage \in TransformKinds
                      => /\ k > 1
                         /\ p[k].mode = "RGB"
                         /\ p[k].reads = {"rgb"}
                         /\ ~p[k].converted

C22_Witness ==
    /\ PredictReturned
    /\ trace.upload.image.mode = "L"
    /\ trace.predict[1].converted
    /\ \A kind \in TransformKinds :
          \E k \in 2..Len(trace.predict) :
              trace.predict[k].stage = kind /\ trace.predict[k].mode = "RGB"

\* the transform kind a branch is named after
BranchKind ==
    [b \in BranchNames |->
        CASE b \in {"mnv2_dct", "cnx_dct"} -> "dct"
          [] b \in {"mnv2_stft", "cnx_stft"} -> "stft"
          [] b \in {"mnv2_wave", "cnx_wave"} -> "wavelet"
          [] OTHER -> "learn"]

\* every iteration order a mapping of the four transforms could have
TransformOrders ==
    {o \in [1..Len(TransformNames) -> TransformKinds] :
        \A i, j \in 1..Len(TransformNames) : o[i] = o[j] => i = j}

\* the branch steps of a predict call, in the order concatenated
BranchPart(p) == SelectSeq(p, LAMBDA e : e.stage \in BranchNames)

\* C23: forward concatenates the eight branch outputs in the order of the
\* dry run (MobileNetV2 on dct, stft, wavelet, learn, then ConvNeXt on the same
\* four), each branch reads the transform output of its own kind, and the
\* iteration order of the transform mapping changes none of this
C23_ForwardOrderIsDryRunOrder ==
    /\ Len(ForwardWiring) = Len(DryRunOrder)
    /\ PredictReturned =>
          LET b == BranchPart(trace.predict)
          IN  /\ Len(b) = Len(DryRunOrder)
              /\ \A k \in 1..Len(b) :
                    /\ b[k].stage = DryRunOrder[k]
                    /\ b[k].reads = {BranchKind[b[k].stage]}
              /\ \A o \in TransformOrders :
                    BranchPart(PredictSteps(heap[predictor], trace.upload.image,
                                            o, "none")) = b

C23_Witness ==
    /\ PredictReturned
    /\ LET b == BranchPart(trace.predict)
       IN  /\ Len(b) = Len(BranchOrder)
           /\ b[3].stage = "mnv2_wave" /\ b[3].reads = {"wavelet"}
           /\ b[5].stage = "cnx_dct" /\ b[5].reads = {"dct"}

\* the steps of a handler in the order written
HandlerOrder ==
    <<"read", "size_check", "validate_image_file", "image_open", "get_validator",
      "validate", "get_predictor", "predict", "generate_report">>

Handling == trace.op \in {"predict", "generate-report"}

\* the handler got as far as a step
Ran(step) == \E k \in 1..Len(trace.steps) : trace.steps[k] = step

\* the request was turned away: too large, invalid type or undecodable, or not
\* a cassava leaf
Rejected == last.status \in {413, 400} \/ last.is_cassava_leaf = "false"

\* C24: both upload handlers call predictor.predict only after the size check,
\* the file-type validation, the decode and the cassava-leaf validation have
\* passed, in this order; a rejected request never reaches the predictor
C24_PredictOnlyAfterChecks ==
    Handling =>
        /\ Len(trace.steps) <= Len(HandlerOrder)
        /\ \A k \in 1..Len(trace.steps) : trace.steps[k] = HandlerOrder[k]
        /\ PredictCalled
              => /\ trace.upload.size <= MAX_FILE_SIZE
                 /\ ValidateImageFile(trace.upload)
                 /\ ~trace.upload.image.truncated
                 /\ Validate(trace.upload.image).is_cassava
        /\ Rejected
              => /\ ~Ran("get_predictor")
                 /\ ~PredictCalled
                 /\ trace.predict = <<>>
                 /\ last.inst = None
        /\ ~PredictCalled => trace.predict = <<>>

C24_Witness ==
    /\ trace.op = "generate-report"
    /\ last.status = 400
    /\ last.is_cassava_leaf = "false"
    /\ Ran("validate")
    /\ ~Ran("get_predictor")
    /\ predictor # None

\* an upload whose type is invalid or whose bytes do not decode to an image
InvalidOrUndecodable(u) ==
    ~u.ext_ok \/ ~u.header_ok \/ u.image.truncated

\* C25: in /predict an oversized upload yields 413, an invalid file type or an
\* undecodable image yields 400, every other exception yields 500, and a
\* non-cassava image yields a normal response with is_cassava_leaf false and no
\* prediction fields
C25_EveryFailureOneErrorOutcome ==
    trace.op = "predict" =>
        /\ last.status \in {200, 400, 413, 500}
        /\ trace.upload.size > MAX_FILE_SIZE <=> last.status = 413
        /\ (trace.upload.size <= MAX_FILE_SIZE /\ InvalidOrUndecodable(trace.upload))
               <=> last.status = 400
        /\ last.status = 500
               => /\ Ran("get_validator")
                  /\ last.stage \in {"validator", "construct", "preprocess", "forward"}
        /\ last.is_cassava_leaf = "false" => (last.status = 200 /\ ~last.has_result)
        /\ last.status = 200 => (last.has_result <=> last.is_cassava_leaf = "true")

\* the same with undecodable meaning only what Image.open rejects: an image
\* whose pixel data is cut short counts as a non-cassava image
C25_OutcomesWithTruncatedAsNonCassava ==
    trace.op = "predict" =>
        /\ last.status \in {200, 400, 413, 500}
        /\ trace.upload.size > MAX_FILE_SIZE <=> last.status = 413
        /\ (trace.upload.size <= MAX_FILE_SIZE /\ ~ValidateImageFile(trace.upload))
               <=> last.status = 400
        /\ last.status = 500
               => /\ Ran("get_validator")
                  /\ last.stage \in {"validator", "construct", "preprocess", "forward"}
        /\ last.is_cassava_leaf = "false" => (last.status = 200 /\ ~last.has_result)
        /\ last.status = 200 => (last.has_result <=> last.is_cassava_leaf = "true")
        /\ (Ran("validate") /\ trace.upload.image.truncated)
               => last.is_cassava_leaf = "false"

\* C26: validate never raises; it returns a confidence in [0, 1] and is_cassava
\* exactly when the confidence is at least the threshold, and when the heuristic
\* fails it returns (False, 0.0, message), so the request is rejected as
\* non-cassava
C26_ValidateNeverRaises ==
    (Handling /\ Ran("validate")) =>
        LET v == Validate(trace.upload.image)
        IN  /\ ~v.raised
            /\ v.confidence \in 0..CONFIDENCE_ONE
            /\ v.is_cassava
                   <=> v.confidence * 10 >= VALIDATOR_THRESHOLD_TENTHS * CONFIDENCE_ONE
            /\ ~CheckLeafCharacteristics(trace.upload.image).ok
                   => /\ ~v.is_cassava
                      /\ v.confidence = 0
                      /\ v.message = "Validation error"
            /\ ~v.is_cassava => (Rejected /\ ~Ran("get_predictor"))
            /\ v.is_cassava => Ran("get_predictor")

C26_Witness ==
    /\ trace.op = "predict"
    /\ Ran("validate")
    /\ trace.upload.image.truncated
    /\ Validate(trace.upload.image).confidence = 0
    /\ last.status = 200
    /\ last.is_cassava_leaf = "false"

====
